---- MODULE Spec2Model ----
(***************************************************************************)
(* A model of zero_to_llama.ipynb: the Llama-2 decoder (rotary encoding,   *)
(* grouped-query attention with a key/value cache, the feed-forward        *)
(* sizing rule, the transformer block and the transformer) as a state      *)
(* machine whose state is the constructed model and its caches and whose   *)
(* steps are constructor and forward calls.                                *)
(*                                                                         *)
(* Floating-point tensors are modelled symbolically.  A tensor element is  *)
(* a term (a tuple that starts with a tag) recording how it was computed;  *)
(* two elements are equal when they are computed from the same operands by *)
(* the same operations.  Tensors are functions over 0-based index ranges,  *)
(* so that slice arithmetic reads as it does in the source.                *)
(***************************************************************************)
EXTENDS Integers, Sequences, FiniteSets, TLC

\* Optional[int]: None is the empty tuple, a value x is <<x>>
None == <<>>
Some(x) == <<x>>
\* the two values of a mask entry
Zero == "0"
NegInf == "-inf"

(***************************************************************************)
(* Bounds of the model.                                                    *)
(***************************************************************************)
MaxCalls == 2
MaxT == 2
SeqLen == 3
MaxDim == 9
MaxMultipleOf == 5
MaxMultiplier == 2
MaxSessionCalls == 5

Min(a, b) == IF a <= b THEN a ELSE b
Max(a, b) == IF a >= b THEN a ELSE b

(***************************************************************************)
(* 0-based vectors.                                                        *)
(***************************************************************************)
Len0(f) == Cardinality(DOMAIN f)
Empty0 == [i \in {} |-> 0]
\* a function with its values computed once, when it is built
Strict(f) == f @@ <<>>
Cat0(f, g) ==
    Strict([i \in 0..(Len0(f) + Len0(g) - 1) |-> IF i < Len0(f) THEN f[i] ELSE g[i - Len0(f)]])
\* a[lo:hi] of Python for 0 <= lo, 0 <= hi: both ends are clamped to the length
Slice0(f, lo, hi) ==
    LET l == Min(lo, Len0(f))
        h == Max(l, Min(hi, Len0(f)))
    IN  Strict([i \in 0..(h - l - 1) |-> f[l + i]])

(***************************************************************************)
(* Args: the model configuration.                                          *)
(***************************************************************************)
Args(dim, n_layers, n_heads, n_kv_heads, vocab_size, multiple_of, ffn_dim_multiplier, batch_size, seq_len) ==
    [dim |-> dim, n_layers |-> n_layers, n_heads |-> n_heads,
     n_kv_heads |-> n_kv_heads, vocab_size |-> vocab_size,
     multiple_of |-> multiple_of, ffn_dim_multiplier |-> ffn_dim_multiplier,
     batch_size |-> batch_size, seq_len |-> seq_len]

(***************************************************************************)
(* precomputed_freqs: one row of unit complex rotation factors per         *)
(* position m (angles m * theta_i); the row of position m is the term      *)
(* <<"freq", m>>.  The assertion on an even dim is part of the function.   *)
(***************************************************************************)
precomputed_freqs(dim, seqlen) ==
    IF dim % 2 # 0
    THEN [ok |-> FALSE, val |-> Empty0]
    ELSE [ok |-> TRUE, val |-> Strict([m \in 0..(seqlen - 1) |-> <<"freq", m>>])]

(***************************************************************************)
(* Broadcasting of two dimension sizes, as torch does it.                  *)
(***************************************************************************)
Broadcastable(a, b) == a = b \/ a = 1 \/ b = 1
BroadcastDim(a, b) == IF a = 1 THEN b ELSE a
\* expand of a dimension of size src to size dst (the setitem rule)
Expandable(src, dst) == src = dst \/ src = 1

(***************************************************************************)
(* rope(x, freqs): x is (B, T, H) of head vectors, freqs is (L) rows.      *)
(* x_cmplx * freqs broadcasts T against L, and the reshape back to x.shape *)
(* fails unless the product has T positions.                               *)
(***************************************************************************)
rope(x, freqs) ==
    LET L == Len0(freqs)
        P == BroadcastDim(x.T, L)
    IN  IF ~Broadcastable(x.T, L) \/ P # x.T
        THEN [ok |-> FALSE, val |-> x.v]
        ELSE [ok |-> TRUE,
              val |-> Strict([b \in 0..(x.B - 1) |-> Strict([i \in 0..(x.T - 1) |->
                        Strict([h \in DOMAIN x.v[b][i] |->
                           <<"rope", x.v[b][i][h], freqs[IF L = 1 THEN 0 ELSE i]>>])])])]

(***************************************************************************)
(* rep_tensor: repeat_interleave along the head dimension: each head       *)
(* repeated n_rep times, contiguously.  Here on one row of heads.          *)
(***************************************************************************)
RECURSIVE repeat_interleave(_, _, _)
repeat_interleave(heads, n, repeats) ==
    IF n = 0 THEN Empty0
    ELSE Cat0(repeat_interleave(heads, n - 1, repeats),
              Strict([r \in 0..(repeats - 1) |-> heads[n - 1]]))

\* a variant that tiles the heads (torch.Tensor.repeat) instead of interleaving them
RepTile(x, n_rep) ==
    Strict([b \in DOMAIN x |-> Strict([p \in DOMAIN x[b] |->
        Strict([h \in 0..(Len0(x[b][p]) * n_rep - 1) |-> x[b][p][h % Len0(x[b][p])]])])])

rep_tensor(x, n_rep) ==
    IF n_rep = 1 THEN x
    ELSE Strict([b \in DOMAIN x |-> Strict([p \in DOMAIN x[b] |->
            repeat_interleave(x[b][p], Len0(x[b][p]), n_rep)])])

(***************************************************************************)
(* Terms.  NaN is absorbing: an operation with a NaN operand gives NaN.    *)
(* The cache is allocated with torch.empty, so an entry never written      *)
(* holds whatever the allocation held: <<"uninit", kind, ...>>, where the  *)
(* kind ("stale": some finite number, "nan") is chosen when the model is   *)
(* constructed.                                                            *)
(***************************************************************************)
NaN == <<"nan">>
IsNaN(t) == t = NaN \/ (t[1] = "uninit" /\ t[2] = "nan")
IsUninit(t) == t[1] = "uninit"
UninitKinds == {"stale", "nan"}

Embedding(tok) == <<"emb", tok>>
OutProj(t) == IF IsNaN(t) THEN NaN ELSE <<"out", t>>
Linear(w, layer, head, x) == IF IsNaN(x) THEN NaN ELSE <<w, layer, head, x>>
RMSNorm_vector(name, x) == IF IsNaN(x) THEN NaN ELSE <<name, x>>
Add(x, y) == IF IsNaN(x) \/ IsNaN(y) THEN NaN ELSE <<"add", x, y>>

\* a (B, T) tensor of position vectors whose last dimension has size D
Tensor(B, T, D, v) == [B |-> B, T |-> T, D |-> D, v |-> v]

\* self.tok_embeddings(x): (B, T) token ids to (B, T, dim)
tok_embeddings(x, dim) ==
    Tensor(x.B, x.T, dim,
           Strict([b \in 0..(x.B - 1) |-> Strict([i \in 0..(x.T - 1) |-> Embedding(x.v[b][i])])]))
\* RMSNorm.forward of the norm called name, position by position
RMSNorm_forward(name, x) ==
    [x EXCEPT !.v = Strict([b \in 0..(x.B - 1) |-> Strict([i \in 0..(x.T - 1) |->
                        RMSNorm_vector(name, x.v[b][i])])])]
\* self.out(x), position by position
Transformer_out(x) ==
    [x EXCEPT !.v = Strict([b \in 0..(x.B - 1) |-> Strict([i \in 0..(x.T - 1) |->
                        OutProj(x.v[b][i])])])]

(***************************************************************************)
(* SelfAttention.__init__                                                  *)
(***************************************************************************)
OrElse(opt, dflt) == IF opt = None THEN dflt ELSE opt[1]

SelfAttention___init__(args, layer, kind) ==
    LET n_kv_heads == OrElse(args.n_kv_heads, args.n_heads)
    IN  [ok |-> args.n_heads % n_kv_heads = 0,
         layer |-> layer,
         dim |-> args.dim,
         n_q_heads |-> args.n_heads,
         n_kv_heads |-> n_kv_heads,
         n_rep |-> args.n_heads \div n_kv_heads,
         h_size |-> args.dim \div args.n_heads,
         k_cache |-> Strict([b \in 0..(args.batch_size - 1) |-> Strict([p \in 0..(args.seq_len - 1) |->
                        Strict([h \in 0..(n_kv_heads - 1) |-> <<"uninit", kind, "k", layer, b, p, h>>])])]),
         v_cache |-> Strict([b \in 0..(args.batch_size - 1) |-> Strict([p \in 0..(args.seq_len - 1) |->
                        Strict([h \in 0..(n_kv_heads - 1) |-> <<"uninit", kind, "v", layer, b, p, h>>])])])]

(***************************************************************************)
(* cache[:B, start:start+T] = val, val of shape (B, T, heads): both slices *)
(* are clamped to the cache, and val must expand to the sliced shape.      *)
(***************************************************************************)
\* a variant that writes at [:B, :T], whatever start is
SetItemFrom0(cache, B, start, T, val) ==
    LET nb == Min(B, Len0(cache))
        hi == Min(T, Len0(cache[0]))
        ok == Expandable(B, nb) /\ Expandable(T, hi)
    IN  [ok |-> ok,
         cache |-> IF ~ok THEN cache
                   ELSE Strict([b \in DOMAIN cache |-> Strict([p \in DOMAIN cache[b] |->
                           IF b < nb /\ p < hi
                           THEN val[IF B = 1 THEN 0 ELSE b][IF T = 1 THEN 0 ELSE p]
                           ELSE cache[b][p]])])]

\* a variant that writes the part of val that fits the cache and drops the rest
SetItemClamped(cache, B, start, T, val) ==
    LET nb == Min(B, Len0(cache))
        lo == Min(start, Len0(cache[0]))
        hi == Max(lo, Min(start + T, Len0(cache[0])))
    IN  [ok |-> TRUE,
         cache |-> Strict([b \in DOMAIN cache |-> Strict([p \in DOMAIN cache[b] |->
                      IF b < nb /\ lo <= p /\ p < hi
                      THEN val[b][p - lo]
                      ELSE cache[b][p]])])]

SetItem(cache, B, start, T, val) ==
    LET nb == Min(B, Len0(cache))
        lo == Min(start, Len0(cache[0]))
        hi == Max(lo, Min(start + T, Len0(cache[0])))
        ok == Expandable(B, nb) /\ Expandable(T, hi - lo)
    IN  [ok |-> ok,
         cache |-> IF ~ok THEN cache
                   ELSE Strict([b \in DOMAIN cache |-> Strict([p \in DOMAIN cache[b] |->
                           IF b < nb /\ lo <= p /\ p < hi
                           THEN val[IF B = 1 THEN 0 ELSE b][IF T = 1 THEN 0 ELSE p - lo]
                           ELSE cache[b][p]])])]

\* cache[:B, :hi]
GetItem(cache, B, hi) == Slice0(Strict([b \in DOMAIN cache |-> Slice0(cache[b], 0, hi)]), 0, B)

(***************************************************************************)
(* The causal mask, or its absence.                                        *)
(***************************************************************************)
NoMask == [present |-> FALSE, T |-> 0, W |-> 0, v |-> Empty0]

(***************************************************************************)
(* SelfAttention.forward(self, x, start_pos, freqs, mask).  self carries   *)
(* the caches; the result carries self as the call left it (an exception   *)
(* keeps what was written before it), the status, the output and a trace   *)
(* of the tensors the call computed.  The body is a chain of steps, each   *)
(* handing the frame c of the call, extended by what it computed, to the   *)
(* next.                                                                   *)
(***************************************************************************)
ScoreScale == "mul_sqrt_h_size"

Raise(err, self, x) == [status |-> err, self |-> self, out |-> x, tr |-> <<>>]

\* wq(x), wk(x), wv(x), viewed as (B, T, n, h_size)
Project(w, layer, n, x) ==
    Tensor(x.B, x.T, 0,
           Strict([b \in 0..(x.B - 1) |-> Strict([i \in 0..(x.T - 1) |->
               Strict([h \in 0..(n - 1) |-> Linear(w, layer, h, x.v[b][i])])])]))

\* k = self.v_cache[:B, :start_pos + T]
ReadKeys(self, B, hi) == GetItem(self.v_cache, B, hi)

\* v = self.v_cache[:B, :start_pos + T]
ReadValues(self, B, hi) == GetItem(self.v_cache, B, hi)

\* the key columns each query row may attend: those the mask leaves at 0
Allowed(mask, T, S) ==
    Strict([i \in 0..(T - 1) |->
        {j \in 0..(S - 1) :
            \/ ~mask.present
            \/ mask.v[IF mask.T = 1 THEN 0 ELSE i][IF mask.W = 1 THEN 0 ELSE j] = Zero}])

\* softmax(q @ k^T * scale + mask) @ v, heads merged, through wo
Attn_Output(c) ==
    [status |-> "ok",
     self |-> c.self,
     out |-> Tensor(c.x.B, c.x.T, c.self.dim,
                Strict([b \in 0..(c.x.B - 1) |-> Strict([i \in 0..(c.x.T - 1) |->
                    IF \E h \in 0..(c.self.n_q_heads - 1) :
                          IsNaN(c.q[b][i][h]) \/ \E j \in DOMAIN c.k[0] :
                              \/ IsNaN(c.k[IF Len0(c.k) = 1 THEN 0 ELSE b][j][h])
                              \/ IsNaN(c.v[IF Len0(c.k) = 1 THEN 0 ELSE b][j][h])
                    THEN NaN
                    ELSE <<"wo", c.self.layer,
                           Strict([h \in 0..(c.self.n_q_heads - 1) |->
                               <<"attn", ScoreScale, c.q[b][i][h],
                                 Strict([j \in c.allowed[i] |->
                                     <<c.k[IF Len0(c.k) = 1 THEN 0 ELSE b][j][h],
                                       c.v[IF Len0(c.k) = 1 THEN 0 ELSE b][j][h]>>])>>])>>])])),
     tr |-> <<[layer |-> c.self.layer, x |-> c.x, start_pos |-> c.start_pos,
               freqs |-> c.freqs, mask |-> c.mask, q |-> c.q,
               k_new |-> c.k_new, v_new |-> c.v_new,
               k_read |-> c.k_read, v_read |-> c.v_read, k |-> c.k, v |-> c.v,
               allowed |-> c.allowed]>>]

\* torch.matmul(q, k.transpose(-2, -1)) and attn += mask: the shapes must broadcast
Attn_Scores(c) ==
    IF \/ ~Broadcastable(c.x.B, Len0(c.k))
       \/ c.self.n_q_heads # Len0(c.k[0][0])
    THEN Raise("RuntimeError", c.self, c.x)
    ELSE IF /\ c.mask.present
            /\ ~(Expandable(c.mask.W, Len0(c.k[0])) /\ Expandable(c.mask.T, c.x.T))
         THEN Raise("RuntimeError", c.self, c.x)
         ELSE Attn_Output([allowed |-> Allowed(c.mask, c.x.T, Len0(c.k[0]))] @@ c)

\* k, v = rep_tensor(k, self.n_rep), rep_tensor(v, self.n_rep)
Attn_Expand(c) ==
    Attn_Scores([k |-> rep_tensor(c.k_read, c.self.n_rep),
                 v |-> rep_tensor(c.v_read, c.self.n_rep)] @@ c)

\* the reads of the cache
Attn_Read(c) ==
    Attn_Expand([k_read |-> ReadKeys(c.self, c.x.B, c.start_pos + c.x.T),
                 v_read |-> ReadValues(c.self, c.x.B, c.start_pos + c.x.T)] @@ c)

\* self.v_cache[:B, start_pos:start_pos + T] = _v
Attn_WriteV(c, vw) ==
    IF ~vw.ok THEN Raise("RuntimeError", c.self, c.x)
    ELSE Attn_Read([self |-> [c.self EXCEPT !.v_cache = vw.cache]] @@ c)

\* self.k_cache[:B, start_pos:start_pos + T] = _k
Attn_WriteK(c, kw) ==
    IF ~kw.ok THEN Raise("RuntimeError", c.self, c.x)
    ELSE Attn_WriteV([self |-> [c.self EXCEPT !.k_cache = kw.cache]] @@ c,
                     SetItem(c.self.v_cache, c.x.B, c.start_pos, c.x.T, c.v_new))

\* q = rope(q, freqs); _k = rope(_k, freqs)
Attn_Rope(c, q, k_new) ==
    IF ~q.ok \/ ~k_new.ok THEN Raise("RuntimeError", c.self, c.x)
    ELSE Attn_WriteK([q |-> q.val, k_new |-> k_new.val] @@ c,
                     SetItem(c.self.k_cache, c.x.B, c.start_pos, c.x.T, k_new.val))

SelfAttention_forward(self, x, start_pos, freqs, mask) ==
    IF x.D # self.dim \/ x.D # self.n_q_heads * self.h_size
    THEN Raise("AssertionError", self, x)
    ELSE Attn_Rope([self |-> self, x |-> x, start_pos |-> start_pos, freqs |-> freqs,
                    mask |-> mask,
                    v_new |-> Project("wv", self.layer, self.n_kv_heads, x).v],
                   rope(Project("wq", self.layer, self.n_q_heads, x), freqs),
                   rope(Project("wk", self.layer, self.n_kv_heads, x), freqs))

(***************************************************************************)
(* FFN.__init__: the hidden dimension.  int(2 * hidden_dim / 3) truncates  *)
(* a non-negative quotient, so it is the floor.                            *)
(***************************************************************************)
\* a variant that rounds down to a multiple
RoundDown(hidden_dim, multiple_of) == multiple_of * (hidden_dim \div multiple_of)

RoundUp(hidden_dim, multiple_of) ==
    multiple_of * ((hidden_dim + multiple_of - 1) \div multiple_of)

FFN___init__(dim, multiple_of, ffn_dim_multiplier) ==
    [dim |-> dim,
     hidden_dim |->
        RoundUp(IF ffn_dim_multiplier # None
                THEN ffn_dim_multiplier[1] * ((2 * (4 * dim)) \div 3)
                ELSE (2 * (4 * dim)) \div 3,
                multiple_of)]

\* x_ + ffn(ffn_norm(x_)): a function of x_ alone
FFN_residual(layer, x_) == IF IsNaN(x_) THEN NaN ELSE <<"add_ffn", layer, x_>>

(***************************************************************************)
(* TransformerBlock                                                        *)
(***************************************************************************)
TransformerBlock___init__(args, layer, kind) ==
    [layer |-> layer,
     attention |-> SelfAttention___init__(args, layer, kind),
     ffn |-> FFN___init__(args.dim, args.multiple_of, None)]

\* x_ = x + attention(...); out = x_ + self.ffn(self.ffn_norm(x_))
Block_Residual(self, x, a) ==
    IF a.status # "ok"
    THEN [status |-> a.status, self |-> [self EXCEPT !.attention = a.self],
          out |-> x, tr |-> <<>>]
    ELSE [status |-> "ok",
          self |-> [self EXCEPT !.attention = a.self],
          out |-> [x EXCEPT !.v = Strict([b \in 0..(x.B - 1) |-> Strict([i \in 0..(x.T - 1) |->
                      FFN_residual(self.layer, Add(x.v[b][i], a.out.v[b][i]))])])],
          tr |-> a.tr]

\* a variant that hands its freqs and mask to the attention in the order it names them
TransformerBlock_forward_Unswapped(self, x, start_pos, freqs, mask) ==
    Block_Residual(self, x,
                   SelfAttention_forward(self.attention, RMSNorm_forward("attn_norm", x),
                                         start_pos, freqs, mask))

TransformerBlock_forward(self, x, start_pos, freqs, mask) ==
    Block_Residual(self, x,
                   SelfAttention_forward(self.attention, RMSNorm_forward("attn_norm", x),
                                         start_pos, mask, freqs))

(***************************************************************************)
(* Transformer                                                             *)
(***************************************************************************)
Transformer_Built(args, layers, freqs) ==
    [ok |-> freqs.ok /\ \A l \in DOMAIN layers : layers[l].attention.ok,
     args |-> args,
     n_layers |-> args.n_layers,
     vocab_size |-> args.vocab_size,
     layers |-> layers,
     freqs |-> freqs.val]

Transformer___init__(args, kind) ==
    Transformer_Built(args,
        Strict([l \in 0..(args.n_layers - 1) |-> TransformerBlock___init__(args, l, kind)]),
        precomputed_freqs(args.dim \div args.n_heads, args.seq_len * 2))

full(T, W, val) == Strict([i \in 0..(T - 1) |-> Strict([j \in 0..(W - 1) |-> val])])
triu(m, diagonal) ==
    Strict([i \in DOMAIN m |-> Strict([j \in DOMAIN m[i] |->
        IF j - i >= diagonal THEN m[i][j] ELSE Zero])])
hstack(a, b) == Strict([i \in DOMAIN b |-> Cat0(a[i], b[i])])

\* a variant whose triangle starts one diagonal too high
MaskOffByOne(T, start_pos) ==
    IF T > 1
    THEN [present |-> TRUE, T |-> T, W |-> start_pos + T,
          v |-> hstack(full(T, start_pos, Zero), triu(full(T, T, NegInf), 2))]
    ELSE NoMask

BuildMask(T, start_pos) ==
    IF T > 1
    THEN [present |-> TRUE, T |-> T, W |-> start_pos + T,
          v |-> hstack(full(T, start_pos, Zero), triu(full(T, T, NegInf), 1))]
    ELSE NoMask

\* for layer in self.layers: x_embd = layer(x_embd, start_pos, mask, freqs)
RECURSIVE RunLayers(_, _, _, _, _, _, _)
RECURSIVE RunLayers_Next(_, _, _, _, _, _, _)
RunLayers_Next(layers, l, r, start_pos, mask, freqs, tr) ==
    IF r.status # "ok"
    THEN [status |-> r.status, layers |-> [layers EXCEPT ![l] = r.self],
          out |-> r.out, tr |-> tr]
    ELSE RunLayers([layers EXCEPT ![l] = r.self], l + 1, r.out, start_pos, mask, freqs,
                   tr \o r.tr)

RunLayers(layers, l, x_embd, start_pos, mask, freqs, tr) ==
    IF l = Len0(layers)
    THEN [status |-> "ok", layers |-> layers, out |-> x_embd, tr |-> tr]
    ELSE RunLayers_Next(layers, l,
                        TransformerBlock_forward(layers[l], x_embd, start_pos, mask, freqs),
                        start_pos, mask, freqs, tr)

\* x_embd = self.norm(x_embd); return self.out(x_embd)
Transformer_Return(self, x, r) ==
    [status |-> r.status,
     self |-> [self EXCEPT !.layers = r.layers],
     out |-> IF r.status = "ok" THEN Transformer_out(RMSNorm_forward("norm", r.out)) ELSE x,
     tr |-> r.tr]

Transformer_forward(self, x, start_pos) ==
    Transformer_Return(self, x,
        RunLayers(self.layers, 0, tok_embeddings(x, self.args.dim),
                  start_pos, BuildMask(x.T, start_pos),
                  Slice0(self.freqs, start_pos, start_pos + x.T), <<>>))

(***************************************************************************)
(* The state: the constructed model (its configuration, its layers with    *)
(* their caches, its rotary table), the feed-forward block of the last     *)
(* direct FFN construction, the last call and its outcome, and what a      *)
(* decoding session has fed and seen so far.                               *)
(***************************************************************************)
VARIABLES phase, model, ffn, last, ncalls, fed, seen

vars == <<phase, model, ffn, last, ncalls, fed, seen>>

NoTensor == Tensor(0, 0, 0, Empty0)
NoCall == [op |-> "none", layer |-> 0, x |-> NoTensor, start_pos |-> 0,
           status |-> "none", out |-> NoTensor, tr |-> <<>>]
NoFFN == [dim |-> 0, hidden_dim |-> 0]

\* the configurations of the models the forward calls are made on
ModelConfigs ==
    {Args(8, 2, 4, kv, 2, 4, None, 2, SeqLen) : kv \in {None, Some(2)}}

\* the configurations the constructors are run on
LlamaDim == 4096
LlamaMultipleOf == 256
BuildConfigs ==
    {Args(dim, n_layers, 1, None, 2, multiple_of, m, 1, 1) :
        dim \in (1..MaxDim) \cup {LlamaDim},
        n_layers \in 1..2,
        multiple_of \in (1..MaxMultipleOf) \cup {LlamaMultipleOf},
        m \in {None} \cup {Some(i) : i \in 1..MaxMultiplier}}

(***************************************************************************)
(* Construction.                                                           *)
(***************************************************************************)
InitBuild ==
    /\ phase = "config"
    /\ \E a \in BuildConfigs : model = [ok |-> FALSE, args |-> a]
    /\ ffn = NoFFN
    /\ last = NoCall
    /\ ncalls = 0
    /\ fed = NoTensor
    /\ seen = NoTensor

\* FFN(dim, multiple_of, ffn_dim_multiplier)
ConstructFFN ==
    /\ phase = "config"
    /\ ffn' = FFN___init__(model.args.dim, model.args.multiple_of,
                           model.args.ffn_dim_multiplier)
    /\ phase' = "ffn"
    /\ UNCHANGED <<model, last, ncalls, fed, seen>>

\* Transformer(args)
ConstructTransformer ==
    /\ phase = "config"
    /\ \E kind \in UninitKinds :
          /\ model' = Transformer___init__(model.args, kind)
          /\ phase' = IF model'.ok THEN "built" ELSE "failed"
    /\ UNCHANGED <<ffn, last, ncalls, fed, seen>>

NextBuild == ConstructFFN \/ ConstructTransformer

SpecBuild == InitBuild /\ [][NextBuild]_vars

(***************************************************************************)
(* Forward calls on a constructed model, by any caller.                    *)
(***************************************************************************)
Init ==
    /\ phase = "built"
    /\ \E a \in ModelConfigs, kind \in UninitKinds :
          /\ model = Transformer___init__(a, kind)
          /\ model.ok
    /\ ffn = NoFFN
    /\ last = NoCall
    /\ ncalls = 0
    /\ fed = NoTensor
    /\ seen = NoTensor

\* a (B, T) batch of token ids
Tokens(B, T, c, vocab) ==
    Tensor(B, T, 0, Strict([b \in 0..(B - 1) |-> Strict([i \in 0..(T - 1) |->
                        (c + b + i) % vocab])]))
\* a (B, T, D) batch of hidden vectors given by the caller
Hidden(B, T, D, c) ==
    Tensor(B, T, D, Strict([b \in 0..(B - 1) |-> Strict([i \in 0..(T - 1) |->
                        <<"x", c, b, i>>])]))

Called(op, l, x, start_pos, r) ==
    [op |-> op, layer |-> l, x |-> x, start_pos |-> start_pos,
     status |-> r.status, out |-> r.out, tr |-> r.tr]

\* model.forward(x, start_pos)
Forward(x, start_pos) ==
    \E r \in {Transformer_forward(model, x, start_pos)} :
        /\ model' = r.self
        /\ last' = Called("forward", 0, x, start_pos, r)

CallForward ==
    /\ phase = "built"
    /\ ncalls < MaxCalls
    /\ \E B \in 1..(model.args.batch_size + 1), T \in 1..MaxT,
          start_pos \in 0..(model.args.seq_len + 1) :
          Forward(Tokens(B, T, ncalls, model.vocab_size), start_pos)
    /\ ncalls' = ncalls + 1
    /\ UNCHANGED <<phase, ffn, fed, seen>>

\* model.layers[l].attention.forward(x, start_pos, freqs, mask) on a (B, T, D)
\* input, with the rotary slice and the mask the model would pass
Attention(l, x, start_pos) ==
    \E r \in {SelfAttention_forward(model.layers[l].attention, x, start_pos,
                                    Slice0(model.freqs, start_pos, start_pos + x.T),
                                    BuildMask(x.T, start_pos))} :
        /\ model' = [model EXCEPT !.layers[l].attention = r.self]
        /\ last' = Called("attention", l, x, start_pos, r)

CallAttention ==
    /\ phase = "built"
    /\ ncalls < MaxCalls
    /\ \E l \in DOMAIN model.layers, B \in 1..(model.args.batch_size + 1), T \in 1..MaxT,
          start_pos \in 0..1 :
          Attention(l, Hidden(B, T, model.args.dim, ncalls), start_pos)
    /\ ncalls' = ncalls + 1
    /\ UNCHANGED <<phase, ffn, fed, seen>>

\* the same call on an input whose last dimension is not dim
CallAttentionBadDim ==
    /\ phase = "built"
    /\ ncalls < MaxCalls
    /\ \E l \in DOMAIN model.layers, B \in 1..model.args.batch_size :
          Attention(l, Hidden(B, 1, model.args.dim + 1, ncalls), 0)
    /\ ncalls' = ncalls + 1
    /\ UNCHANGED <<phase, ffn, fed, seen>>

Next == CallForward \/ CallAttention \/ CallAttentionBadDim

Spec == Init /\ [][Next]_vars

(***************************************************************************)
(* A decoding session: one prefill at start_pos = 0, then single-token     *)
(* steps, each at start_pos equal to the number of tokens fed so far, for  *)
(* as long as the calls return.  fed is the (B, n) batch of all tokens fed *)
(* and seen the logits the calls returned, position by position.           *)
(***************************************************************************)
ConcatT(a, x) ==
    IF a.T = 0 THEN x
    ELSE Tensor(x.B, a.T + x.T, x.D, Strict([b \in 0..(x.B - 1) |-> Cat0(a.v[b], x.v[b])]))

Step(op, x, start_pos) ==
    \E r \in {Transformer_forward(model, x, start_pos)} :
        /\ model' = r.self
        /\ last' = Called(op, 0, x, start_pos, r)
        /\ fed' = IF r.status = "ok" THEN ConcatT(fed, x) ELSE fed
        /\ seen' = IF r.status = "ok" THEN ConcatT(seen, r.out) ELSE seen

Prefill ==
    /\ phase = "built"
    /\ ncalls = 0
    /\ \E B \in 1..model.args.batch_size, T \in 1..MaxT, c \in 0..(model.vocab_size - 1) :
          Step("prefill", Tokens(B, T, c, model.vocab_size), 0)
    /\ ncalls' = 1
    /\ UNCHANGED <<phase, ffn>>

Decode ==
    /\ phase = "built"
    /\ ncalls > 0
    /\ ncalls < MaxSessionCalls
    /\ last.status = "ok"
    /\ \E c \in 0..(model.vocab_size - 1) :
          Step("decode", Tokens(fed.B, 1, c, model.vocab_size), fed.T)
    /\ ncalls' = ncalls + 1
    /\ UNCHANGED <<phase, ffn>>

NextSession == Prefill \/ Decode

SpecSession == Init /\ [][NextSession]_vars

(***************************************************************************)
(* The properties.                                                         *)
(***************************************************************************)
\* the entries of the last call's trace, one per attention that returned
Entries == {last.tr[n] : n \in 1..Len(last.tr)}
AttentionOf(e) == model.layers[e.layer].attention
\* the positions of row b of a cache that hold something written
Written(cache, b) == {p \in DOMAIN cache[b] : \E h \in DOMAIN cache[b][p] : ~IsUninit(cache[b][p][h])}

\* C1: in a session within the cache's capacity, the logits the prefill and the
\* single-token steps returned equal, position by position, those of one forward
\* call on all the tokens fed at start_pos = 0 on a fresh model, and in every layer
\* the last call's rows attend the same positions over the same keys and values
C1_IncrementalEqualsFull ==
    (last.status = "ok" /\ fed.T <= model.args.seq_len) =>
        \A kind \in UninitKinds :
            \E whole \in {Transformer_forward(Transformer___init__(model.args, kind), fed, 0)} :
                /\ whole.status = "ok"
                /\ whole.out.v = seen.v
                /\ Len(whole.tr) = Len(last.tr)
                /\ \A l \in 1..Len(last.tr) :
                      /\ last.tr[l].k = whole.tr[l].k
                      /\ last.tr[l].v = whole.tr[l].v
                      /\ \A t \in 0..(last.x.T - 1) :
                            last.tr[l].allowed[t] = whole.tr[l].allowed[fed.T - last.x.T + t]

C1_Witness ==
    /\ last.op = "decode"
    /\ last.status = "ok"
    /\ ncalls >= 2
    /\ fed.B = 2
    /\ fed.T = model.args.seq_len
    /\ seen.T = fed.T

\* C2: a forward call with start_pos + T > seq_len fails, returns no logits and
\* leaves every layer's caches as they were
C2_OverflowFails ==
    [][(/\ ncalls' # ncalls
        /\ last'.op = "forward"
        /\ last'.start_pos + last'.x.T > model.args.seq_len)
       => (last'.status # "ok" /\ model' = model)]_vars

\* C3: the keys an attention call scores against are the key cache at
\* [:B, :start_pos + T] and the values it weighs are the value cache there
C3_KeysFromKeyCache ==
    last.status = "ok" =>
        \A e \in Entries :
            /\ e.k_read = GetItem(AttentionOf(e).k_cache, e.x.B, e.start_pos + e.x.T)
            /\ e.v_read = GetItem(AttentionOf(e).v_cache, e.x.B, e.start_pos + e.x.T)

\* C4: in every call that returns, the query at block index i attends exactly the
\* positions 0..start_pos + i; for T > 1 the mask is (T, start_pos + T), 0 at the
\* cached columns and at or below the diagonal of the block and -inf above it; for
\* T = 1 there is no mask and the query attends start_pos + 1 positions
C4_AttendedRange ==
    last.status = "ok" =>
        \A e \in Entries :
            /\ \A i \in 0..(e.x.T - 1) : e.allowed[i] = 0..(e.start_pos + i)
            /\ e.x.T > 1 =>
                  /\ e.mask.present
                  /\ e.mask.T = e.x.T
                  /\ e.mask.W = e.start_pos + e.x.T
                  /\ \A i \in 0..(e.x.T - 1), j \in 0..(e.start_pos + e.x.T - 1) :
                        e.mask.v[i][j] = IF j - e.start_pos > i THEN NegInf ELSE Zero
            /\ e.x.T = 1 =>
                  /\ ~e.mask.present
                  /\ Cardinality(e.allowed[0]) = e.start_pos + 1

\* C5: after every call of a session that returns, the written positions of every
\* layer's key cache and value cache are exactly 0..start_pos + T - 1
C5_OccupancyIsPrefix ==
    last.status = "ok" =>
        \A l \in DOMAIN model.layers, b \in 0..(fed.B - 1) :
            /\ Written(model.layers[l].attention.k_cache, b) = 0..(last.start_pos + last.x.T - 1)
            /\ Written(model.layers[l].attention.v_cache, b) = 0..(last.start_pos + last.x.T - 1)

\* the frame of one call: what each attention that returned wrote, and nothing else
C6_Step ==
    ncalls' # ncalls =>
        /\ model'.freqs = model.freqs
        /\ model'.args = model.args
        /\ DOMAIN model'.layers = DOMAIN model.layers
        /\ \A l \in DOMAIN model.layers :
              /\ [model'.layers[l] EXCEPT
                     !.attention.k_cache = model.layers[l].attention.k_cache,
                     !.attention.v_cache = model.layers[l].attention.v_cache] = model.layers[l]
              /\ (last'.status = "ok" /\ \A n \in 1..Len(last'.tr) : last'.tr[n].layer # l)
                    => model'.layers[l] = model.layers[l]
              /\ \A n \in 1..Len(last'.tr) :
                    last'.tr[n].layer = l =>
                        /\ last'.tr[n].k_new
                              = rope(Project("wk", l, model.layers[l].attention.n_kv_heads,
                                             last'.tr[n].x), last'.tr[n].freqs).val
                        /\ last'.tr[n].v_new
                              = Project("wv", l, model.layers[l].attention.n_kv_heads,
                                        last'.tr[n].x).v
                        /\ \A b \in DOMAIN model.layers[l].attention.k_cache :
                             \A p \in DOMAIN model.layers[l].attention.k_cache[b] :
                            IF /\ b < last'.tr[n].x.B
                               /\ last'.tr[n].start_pos <= p
                               /\ p < last'.tr[n].start_pos + last'.tr[n].x.T
                            THEN /\ model'.layers[l].attention.k_cache[b][p]
                                      = last'.tr[n].k_new[b][p - last'.tr[n].start_pos]
                                 /\ model'.layers[l].attention.v_cache[b][p]
                                      = last'.tr[n].v_new[b][p - last'.tr[n].start_pos]
                            ELSE /\ model'.layers[l].attention.k_cache[b][p]
                                      = model.layers[l].attention.k_cache[b][p]
                                 /\ model'.layers[l].attention.v_cache[b][p]
                                      = model.layers[l].attention.v_cache[b][p]

\* the last call's attentions, called again on the same input, change nothing
C6_Repeat ==
    last.status = "ok" =>
        \A e \in Entries :
            \E r \in {SelfAttention_forward(AttentionOf(e), e.x, e.start_pos, e.freqs, e.mask)} :
                r.status = "ok" /\ r.self = AttentionOf(e)

C7_ShapeErrorWritesNothing ==
    [][(/\ ncalls' # ncalls
        /\ last'.status # "ok"
        /\ \/ last'.op = "attention" /\ last'.x.D # model.args.dim
           \/ last'.x.B > model.args.batch_size)
       => model' = model]_vars

C7_Witness ==
    /\ ncalls = 2
    /\ last.status = "RuntimeError"
    /\ last.x.B > model.args.batch_size
    /\ ~IsUninit(model.layers[0].attention.v_cache[0][0][0])

\* C8: with no multiplier the hidden dimension FFN.__init__ computes is the
\* smallest multiple of multiple_of that is >= floor(8 * dim / 3); for dim = 4096
\* and multiple_of = 256 it is 11008
C8_HiddenDim ==
    (phase = "ffn" /\ model.args.ffn_dim_multiplier = None) =>
        /\ ffn.hidden_dim % model.args.multiple_of = 0
        /\ ffn.hidden_dim >= (8 * model.args.dim) \div 3
        /\ ffn.hidden_dim - model.args.multiple_of < (8 * model.args.dim) \div 3
        /\ (model.args.dim = 4096 /\ model.args.multiple_of = 256) => ffn.hidden_dim = 11008

C8_Witness ==
    /\ phase = "ffn"
    /\ model.args.ffn_dim_multiplier = None
    /\ model.args.dim = LlamaDim
    /\ model.args.multiple_of = LlamaMultipleOf
    /\ ffn.hidden_dim = 11008

\* C9: in a model built from a configuration that sets ffn_dim_multiplier, every
\* layer's feed-forward hidden dimension is the smallest multiple of multiple_of
\* that is >= multiplier * floor(8 * dim / 3)
C9_MultiplierUsed ==
    (phase = "built" /\ model.args.ffn_dim_multiplier # None) =>
        \A l \in DOMAIN model.layers :
            \E want \in {model.args.ffn_dim_multiplier[1] * ((8 * model.args.dim) \div 3)} :
                /\ model.layers[l].ffn.hidden_dim % model.args.multiple_of = 0
                /\ model.layers[l].ffn.hidden_dim >= want
                /\ model.layers[l].ffn.hidden_dim - model.args.multiple_of < want

\* C10: after the expansion there are n_heads key heads and n_heads value heads,
\* head h of them being head h \div n_rep of what was read from the cache, and the
\* output's head h is computed from the query's head h and those; with n_rep = 1
\* the expansion changes nothing
C10_HeadGroups ==
    last.status = "ok" =>
        \A e \in Entries :
            /\ \A b \in DOMAIN e.k : \A p \in DOMAIN e.k[b] :
                  /\ DOMAIN e.k[b][p] = 0..(AttentionOf(e).n_q_heads - 1)
                  /\ DOMAIN e.v[b][p] = 0..(AttentionOf(e).n_q_heads - 1)
                  /\ \A h \in 0..(AttentionOf(e).n_q_heads - 1) :
                        /\ e.k[b][p][h] = e.k_read[b][p][h \div AttentionOf(e).n_rep]
                        /\ e.v[b][p][h] = e.v_read[b][p][h \div AttentionOf(e).n_rep]
            /\ AttentionOf(e).n_rep = 1 => (e.k = e.k_read /\ e.v = e.v_read)
            /\ last.op = "attention" =>
                  \A b \in 0..(e.x.B - 1), i \in 0..(e.x.T - 1) :
                      IsNaN(last.out.v[b][i]) \/
                          \A h \in 0..(AttentionOf(e).n_q_heads - 1), j \in e.allowed[i] :
                              /\ last.out.v[b][i][3][h][3] = e.q[b][i][h]
                              /\ last.out.v[b][i][3][h][4][j]
                                    = <<e.k_read[b][j][h \div AttentionOf(e).n_rep],
                                        e.v_read[b][j][h \div AttentionOf(e).n_rep]>>

C10_Witness ==
    /\ last.op = "attention"
    /\ last.status = "ok"
    /\ last.x.T = 2
    /\ model.layers[last.layer].attention.n_rep = 2
    /\ ~IsNaN(last.out.v[0][1])

\* C11: a Transformer.forward call within the cache's capacity returns having run
\* every layer's attention, and in every call that returns each layer's attention
\* received the call's start_pos, as rotation factors the rotary rows of the
\* positions start_pos..start_pos + T - 1, with which it rotated q and k before
\* writing k to the cache, and as additive mask the causal mask of the call (none
\* when T = 1), from which alone the attended columns follow: the mask is not the
\* rotation factors and the rotary rows are not the mask
C11_ArgumentRoles ==
    last.op = "forward" =>
        /\ (last.x.B <= model.args.batch_size /\ last.start_pos + last.x.T <= model.args.seq_len)
              => last.status = "ok"
        /\ last.status = "ok" =>
              /\ Len(last.tr) = model.n_layers
              /\ \A n \in 1..Len(last.tr) :
                    /\ last.tr[n].layer = n - 1
                    /\ last.tr[n].start_pos = last.start_pos
                    /\ DOMAIN last.tr[n].freqs = 0..(last.x.T - 1)
                    /\ \A i \in 0..(last.x.T - 1) :
                          last.tr[n].freqs[i] = <<"freq", last.start_pos + i>>
                    /\ last.tr[n].mask.present = (last.x.T > 1)
                    /\ last.x.T > 1 =>
                          /\ last.tr[n].mask.T = last.x.T
                          /\ last.tr[n].mask.W = last.start_pos + last.x.T
                          /\ \A i \in 0..(last.x.T - 1) :
                                \A j \in 0..(last.start_pos + last.x.T - 1) :
                                    last.tr[n].mask.v[i][j]
                                        = IF j - last.start_pos > i THEN NegInf ELSE Zero
                    /\ \A b \in 0..(last.x.B - 1) : \A i \in 0..(last.x.T - 1) :
                          /\ \A h \in 0..(AttentionOf(last.tr[n]).n_q_heads - 1) :
                                last.tr[n].q[b][i][h]
                                    = <<"rope", Linear("wq", n - 1, h, last.tr[n].x.v[b][i]),
                                        <<"freq", last.start_pos + i>>>>
                          /\ \A h \in 0..(AttentionOf(last.tr[n]).n_kv_heads - 1) :
                                /\ last.tr[n].k_new[b][i][h]
                                      = <<"rope", Linear("wk", n - 1, h, last.tr[n].x.v[b][i]),
                                          <<"freq", last.start_pos + i>>>>
                                /\ last.start_pos + i < model.args.seq_len =>
                                      AttentionOf(last.tr[n]).k_cache[b][last.start_pos + i][h]
                                          = last.tr[n].k_new[b][i][h]
                          /\ last.tr[n].allowed[i]
                                = {j \in DOMAIN last.tr[n].k[0] :
                                      last.x.T = 1 \/ last.tr[n].mask.v[i][j] = Zero}

C11_Witness ==
    /\ last.op = "forward"
    /\ last.status = "ok"
    /\ last.x.T = 2
    /\ last.start_pos = 1
    /\ Len(last.tr) = 2
    /\ last.tr[2].mask.present
    /\ last.tr[2].freqs[1] = <<"freq", 2>>

====
